---- MODULE Spec2Model ----
(***************************************************************************)
(* A model of go-logger: the level model (Text2Level, convLevel), the zap  *)
(* adapter (newZap, Check, the leveled writes) and the default-logger /    *)
(* context resolution chain (ToContext, FromContext, FromDefaultContext,   *)
(* GetDefaultLogger) over the package variables def, defaultContext and    *)
(* LoggerConfig.                                                           *)
(***************************************************************************)
EXTENDS Integers, Sequences, FiniteSets, TLC

VARIABLES
    def,             \* package variable def (logger.go)
    defaultContext,  \* package variable defaultContext (logger.go)
    LoggerConfig,    \* package variable LoggerConfig (config.go)
    ctx,             \* the context the application currently holds
    held,            \* the zapLogger the application writes to
    origin,          \* the call that constructed the held logger
    nextId,          \* number of zapLogger objects allocated so far
    lastSet,         \* argument of the last SetDefaultLogger call
    out,             \* the last record written to stdout
    exited,          \* the process has exited (a Fatal write)
    call             \* the last call: its arguments and its result

vars == <<def, defaultContext, LoggerConfig, ctx, held, origin, nextId,
          lastSet, out, exited, call>>

---------------------------------------------------------------------------
(* Bounds of the model.                                                    *)

MaxLoggers == 2

MaxCtxDepth == 2

---------------------------------------------------------------------------
(* LogLevel (uint8) and its seven constants.                               *)

PanicLevel == 0

FatalLevel == 1

ErrorLevel == 2

WarnLevel == 3

InfoLevel == 4

DebugLevel == 5

TraceLevel == 6

LogLevel == 0..255

(* The zapcore levels the adapter names.                                   *)

ZapDebugLevel == -1

ZapInfoLevel == 0

ZapWarnLevel == 1

ZapErrorLevel == 2

ZapPanicLevel == 4

ZapFatalLevel == 5

---------------------------------------------------------------------------
(* Level texts are sequences of characters, so that strings.ToUpper is a   *)
(* computation.                                                            *)

LowerLetters ==
    <<"a","b","c","d","e","f","g","h","i","j","k","l","m",
      "n","o","p","q","r","s","t","u","v","w","x","y","z">>

UpperLetters ==
    <<"A","B","C","D","E","F","G","H","I","J","K","L","M",
      "N","O","P","Q","R","S","T","U","V","W","X","Y","Z">>

UpperOf ==
    [c \in {LowerLetters[i] : i \in 1..Len(LowerLetters)} |->
        UpperLetters[CHOOSE i \in 1..Len(LowerLetters) : LowerLetters[i] = c]]

ToUpperChar(c) ==
    IF c \in DOMAIN UpperOf THEN UpperOf[c] ELSE c

ToUpper(s) ==
    [i \in 1..Len(s) |-> ToUpperChar(s[i])]

TxtTRACE == <<"T","R","A","C","E">>

TxtDEBUG == <<"D","E","B","U","G">>

TxtINFO == <<"I","N","F","O">>

TxtWARNING == <<"W","A","R","N","I","N","G">>

TxtERROR == <<"E","R","R","O","R">>

TxtFATAL == <<"F","A","T","A","L">>

TxtPANIC == <<"P","A","N","I","C">>

TxtUNKNOWN == <<"U","N","K","N","O","W","N">>

(* Text2Level: the switch assigns in eight cases; in every other case the  *)
(* declared variable keeps its zero value.                                 *)

Text2Level(level) ==
    LET u == ToUpper(level)
        logLevel == 0
    IN
    CASE u = TxtTRACE   -> TraceLevel
      [] u = TxtDEBUG   -> DebugLevel
      [] u = TxtINFO    -> InfoLevel
      [] u = TxtWARNING -> WarnLevel
      [] u = TxtERROR   -> ErrorLevel
      [] u = TxtFATAL   -> FatalLevel
      [] u = TxtPANIC   -> PanicLevel
      [] u = TxtUNKNOWN -> InfoLevel
      [] OTHER          -> logLevel

(* convLevel returns *zapcore.Level: a nil pointer or a pointer to lvl.    *)
NilLevel == [isNil |-> TRUE, v |-> 0]

PtrLevel(lvl) == [isNil |-> FALSE, v |-> lvl]

convLevelPanicMapped(level) ==
    CASE level = TraceLevel -> PtrLevel(ZapDebugLevel)
      [] level = DebugLevel -> PtrLevel(ZapDebugLevel)
      [] level = InfoLevel  -> PtrLevel(ZapInfoLevel)
      [] level = WarnLevel  -> PtrLevel(ZapWarnLevel)
      [] level = ErrorLevel -> PtrLevel(ZapErrorLevel)
      [] level = FatalLevel -> PtrLevel(ZapFatalLevel)
      [] level = PanicLevel -> PtrLevel(ZapPanicLevel)
      [] OTHER              -> NilLevel

convLevel(level) ==
    CASE level = TraceLevel -> PtrLevel(ZapDebugLevel)
      [] level = DebugLevel -> PtrLevel(ZapDebugLevel)
      [] level = InfoLevel  -> PtrLevel(ZapInfoLevel)
      [] level = WarnLevel  -> PtrLevel(ZapWarnLevel)
      [] level = ErrorLevel -> PtrLevel(ZapErrorLevel)
      [] level = FatalLevel -> PtrLevel(ZapFatalLevel)
      [] OTHER              -> NilLevel

---------------------------------------------------------------------------
(* Interface values: nil, a *MockLogger, a *zapLogger, or a value of a     *)
(* type that does not implement Logger.                                    *)

Nil == [kind |-> "nil"]

MockLogger(i) == [kind |-> "mock", id |-> i]

NonLogger == [kind |-> "string"]

IsLogger(v) == v.kind \in {"mock", "zap"}

NoErr == "nil"

ErrWrongLevel == "wrong logging level"

(* The zap.Config newZap builds: the JSON defaults, then the console and   *)
(* the Trace overrides.                                                    *)
jsonConfig(lvl) ==
    [ Level        |-> lvl,
      Development  |-> TRUE,
      Encoding     |-> "json",
      MessageKey   |-> "message",
      LevelKey     |-> "severity",
      TimeKey      |-> "timestamp",
      CallerKey    |-> "module",
      EncodeLevel  |-> "LowercaseLevelEncoder",
      EncodeTime   |-> "ISO8601TimeEncoder",
      EncodeCaller |-> "ShortCallerEncoder" ]

consoleOverride(json, config) ==
    IF ~json
    THEN [config EXCEPT !.Encoding     = "console",
                        !.EncodeLevel  = "CapitalColorLevelEncoder",
                        !.TimeKey      = "",
                        !.EncodeCaller = "bracketsCallerEncoder"]
    ELSE config

traceOverride(json, level, config) ==
    IF level = TraceLevel
    THEN [config EXCEPT !.EncodeLevel = "TraceLevelEncoder"]
    ELSE config

traceFlag(level) == TraceLevel = level

(* newZap(json, level); id is the address of the zapLogger it allocates.   *)
(* config.Build() cannot fail on this configuration: both encodings are    *)
(* registered, EncodeTime is set and the only sink is stdout.              *)
newZapNoLevelCheck(json, level, id) ==
    LET lvl == convLevel(level)
        config == traceOverride(json, level,
                      consoleOverride(json, jsonConfig(lvl.v)))
    IN  [ logger |-> [kind |-> "zap", id |-> id, log |-> config,
                      traceLevel |-> traceFlag(level)],
          err    |-> NoErr ]

newZap(json, level, id) ==
    LET lvl == convLevel(level) IN
    IF lvl.isNil
    THEN [logger |-> Nil, err |-> ErrWrongLevel]
    ELSE LET config == traceOverride(json, level,
                           consoleOverride(json, jsonConfig(lvl.v)))
         IN  [ logger |-> [kind |-> "zap", id |-> id, log |-> config,
                           traceLevel |-> traceFlag(level)],
               err    |-> NoErr ]

(* NewLogger(conf) *)
NewLogger(conf, id) ==
    newZap(conf.IsJson, Text2Level(conf.Level), id)

---------------------------------------------------------------------------
(* The backend as the adapter uses it.                                     *)

(* core.Enabled(lvl): the atomic level threshold. *)
CoreEnabled(log, lvl) == lvl >= log.Level

(* Logger.Check(lvl, "") returns a checked entry when the core admits the  *)
(* level, and always for the terminal levels.                              *)
ZapCheck(log, lvl) ==
    \/ CoreEnabled(log, lvl)
    \/ lvl \in {ZapFatalLevel, ZapPanicLevel}

CheckTraceFromBackend(l, level) ==
    LET lvl == convLevel(level) IN
    IF lvl.isNil THEN FALSE ELSE ZapCheck(l.log, lvl.v)

CheckIgnoresThreshold(l, level) ==
    IF level = TraceLevel
    THEN l.traceLevel
    ELSE ~convLevel(level).isNil

(* zapLogger.Check *)
Check(l, level) ==
    IF level = TraceLevel
    THEN l.traceLevel
    ELSE LET lvl == convLevel(level) IN
         IF lvl.isNil THEN FALSE ELSE ZapCheck(l.log, lvl.v)

(* zapcore.Level.String and CapitalString, and the level colours.          *)
LevelString(l) ==
    CASE l = ZapDebugLevel  -> "debug"
      [] l = ZapInfoLevel   -> "info"
      [] l = ZapWarnLevel   -> "warn"
      [] l = ZapErrorLevel  -> "error"
      [] l = ZapPanicLevel  -> "panic"
      [] l = ZapFatalLevel  -> "fatal"
      [] OTHER              -> "Level(n)"

LevelCapitalString(l) ==
    CASE l = ZapDebugLevel  -> "DEBUG"
      [] l = ZapInfoLevel   -> "INFO"
      [] l = ZapWarnLevel   -> "WARN"
      [] l = ZapErrorLevel  -> "ERROR"
      [] l = ZapPanicLevel  -> "PANIC"
      [] l = ZapFatalLevel  -> "FATAL"
      [] OTHER              -> "LEVEL(n)"

LevelColor(l) ==
    CASE l = ZapDebugLevel -> "magenta"
      [] l = ZapInfoLevel  -> "blue"
      [] l = ZapWarnLevel  -> "yellow"
      [] OTHER             -> "red"

LowercaseLevelEncoder(l) == [text |-> LevelString(l), color |-> "none"]

CapitalColorLevelEncoder(l) ==
    [text |-> LevelCapitalString(l), color |-> LevelColor(l)]

(* TraceLevelEncoder *)
TraceLevelEncoder(l) ==
    IF l = ZapDebugLevel - 1
    THEN [text |-> "TRACE", color |-> "none"]
    ELSE CapitalColorLevelEncoder(l)

EncodeLevel(log, l) ==
    CASE log.EncodeLevel = "LowercaseLevelEncoder"    -> LowercaseLevelEncoder(l)
      [] log.EncodeLevel = "CapitalColorLevelEncoder" -> CapitalColorLevelEncoder(l)
      [] log.EncodeLevel = "TraceLevelEncoder"        -> TraceLevelEncoder(l)

(* The record a write of level l renders on the session log.               *)
Record(log, l) ==
    [ encoding  |-> log.Encoding,
      level     |-> l,
      severity  |-> EncodeLevel(log, l),
      levelKey  |-> log.LevelKey,
      timeKey   |-> log.TimeKey,
      caller    |-> log.EncodeCaller ]

NoRecord == [encoding |-> "none"]

---------------------------------------------------------------------------
(* Contexts: nil, or context.Background() wrapped by a chain of WithValue  *)
(* nodes, the newest last.                                                 *)

loggerKey == "logger"

otherKey == "request-id"

NilCtx == [isNil |-> TRUE, chain |-> <<>>]

Background == [isNil |-> FALSE, chain |-> <<>>]

WithValue(c, k, v) ==
    [c EXCEPT !.chain = Append(@, [key |-> k, val |-> v])]

(* ctx.Value(key): the value of the nearest node holding the key, or nil.  *)
ValueOldestFirst(c, k) ==
    LET hits == {i \in 1..Len(c.chain) : c.chain[i].key = k} IN
    IF hits = {} THEN Nil
    ELSE c.chain[CHOOSE i \in hits : \A j \in hits : i <= j].val

Value(c, k) ==
    LET hits == {i \in 1..Len(c.chain) : c.chain[i].key = k} IN
    IF hits = {} THEN Nil
    ELSE c.chain[CHOOSE i \in hits : \A j \in hits : i >= j].val

(* ToContext *)
ToContext(c, l) == WithValue(c, loggerKey, l)

(* The package state a call reads and writes. *)
Globals ==
    [ def |-> def, defaultContext |-> defaultContext,
      LoggerConfig |-> LoggerConfig, nextId |-> nextId ]

(* SetDefaultLogger *)
SetDefaultLogger(g, l) == [g EXCEPT !.def = l]

(* SetDefaultContext *)
SetDefaultContext(g, c) == [g EXCEPT !.defaultContext = c]

(* GetDefaultLogger: the result, whether it panicked, the package state it *)
(* leaves and the package variables it touched.                            *)
GetDefaultLoggerCaches(g) ==
    IF g.def # Nil
    THEN [ret |-> g.def, panicked |-> FALSE, g |-> g, touched |-> {"def"}]
    ELSE LET conf == IF g.LoggerConfig.Level = <<>>
                     THEN [g.LoggerConfig EXCEPT !.Level = TxtDEBUG]
                     ELSE g.LoggerConfig
             r == newZap(conf.IsJson, Text2Level(conf.Level), g.nextId + 1)
             g1 == [g EXCEPT !.LoggerConfig = conf]
         IN  IF r.err # NoErr
             THEN [ret |-> Nil, panicked |-> TRUE, g |-> g1,
                   touched |-> {"def", "LoggerConfig"}]
             ELSE [ret |-> r.logger, panicked |-> FALSE,
                   g |-> [g1 EXCEPT !.nextId = @ + 1, !.def = r.logger],
                   touched |-> {"def", "LoggerConfig"}]

GetDefaultLogger(g) ==
    IF g.def # Nil
    THEN [ret |-> g.def, panicked |-> FALSE, g |-> g, touched |-> {"def"}]
    ELSE LET conf == IF g.LoggerConfig.Level = <<>>
                     THEN [g.LoggerConfig EXCEPT !.Level = TxtDEBUG]
                     ELSE g.LoggerConfig
             r == newZap(conf.IsJson, Text2Level(conf.Level), g.nextId + 1)
             g1 == [g EXCEPT !.LoggerConfig = conf]
         IN  IF r.err # NoErr
             THEN [ret |-> Nil, panicked |-> TRUE, g |-> g1,
                   touched |-> {"def", "LoggerConfig"}]
             ELSE [ret |-> r.logger, panicked |-> FALSE,
                   g |-> [g1 EXCEPT !.nextId = @ + 1],
                   touched |-> {"def", "LoggerConfig"}]

(* FromDefaultContext *)
FromDefaultContextSkipsContext(g) ==
    LET g1 == IF g.defaultContext.isNil
              THEN [g EXCEPT !.defaultContext = Background]
              ELSE g
        r == GetDefaultLogger(g1)
    IN  [r EXCEPT !.touched = @ \cup {"defaultContext"}]

FromDefaultContext(g) ==
    LET g1 == IF g.defaultContext.isNil
              THEN [g EXCEPT !.defaultContext = Background]
              ELSE g
        v == Value(g1.defaultContext, loggerKey)
    IN  IF IsLogger(v)
        THEN [ret |-> v, panicked |-> FALSE, g |-> g1,
              touched |-> {"defaultContext"}]
        ELSE LET r == GetDefaultLogger(g1)
             IN  [r EXCEPT !.touched = @ \cup {"defaultContext"}]

(* FromContext *)
FromContextFallsThrough(c, g) ==
    LET o == Value(c, loggerKey) IN
    IF IsLogger(o)
    THEN [ret |-> o, panicked |-> FALSE, g |-> g, touched |-> {}]
    ELSE FromDefaultContext(g)

FromContext(c, g) ==
    LET o == Value(c, loggerKey) IN
    IF o = Nil
    THEN FromDefaultContext(g)
    ELSE IF IsLogger(o)
    THEN [ret |-> o, panicked |-> FALSE, g |-> g, touched |-> {}]
    ELSE [ret |-> Nil, panicked |-> FALSE, g |-> g, touched |-> {}]

---------------------------------------------------------------------------
(* Inputs.                                                                 *)

LevelTexts ==
    { TxtTRACE, TxtDEBUG, TxtINFO, TxtWARNING, TxtERROR, TxtFATAL, TxtPANIC,
      TxtUNKNOWN,
      <<"t","r","a","c","e">>, <<"d","e","b","u","g">>, <<"i","n","f","o">>,
      <<"w","a","r","n","i","n","g">>, <<"e","r","r","o","r">>,
      <<"f","a","t","a","l">>, <<"p","a","n","i","c">>,
      <<"u","n","k","n","o","w","n">>,
      <<"T","r","a","c","e">>, <<"d","E","b","U","g">>, <<"W","a","r","n","i","n","g">>,
      <<>>, <<"W","A","R","N">>, <<"w","a","r","n">>, <<"T","R","A","C","E"," ">>,
      <<"V","E","R","B","O","S","E">>, <<"I","N","F","O","S">>, <<"O","F","F">>,
      <<"6">>, <<"D","E","B","U">> }

ConfigTexts ==
    { <<>>, TxtTRACE, TxtDEBUG, TxtINFO, TxtWARNING, TxtERROR, TxtFATAL,
      TxtPANIC, TxtUNKNOWN, <<"t","r","a","c","e">>, <<"W","a","r","n","i","n","g">>,
      <<"V","E","R","B","O","S","E">>, <<"W","A","R","N","I","N","G","S">> }

Configs ==
    { [Level |-> <<>>, IsJson |-> FALSE],
      [Level |-> TxtPANIC, IsJson |-> FALSE],
      [Level |-> <<"V","E","R","B","O","S","E">>, IsJson |-> FALSE] }

LevelInputs == (0..8) \cup {100, 255}

NoOrigin == [via |-> "none"]

NoCall == [op |-> "none"]

Init ==
    /\ def = Nil
    /\ defaultContext = NilCtx
    /\ LoggerConfig = [Level |-> <<>>, IsJson |-> FALSE]
    /\ ctx = Background
    /\ held = Nil
    /\ origin = NoOrigin
    /\ nextId = 0
    /\ lastSet = Nil
    /\ out = NoRecord
    /\ exited = FALSE
    /\ call = NoCall

---------------------------------------------------------------------------
(* The level functions called on their own.                                *)

CallText2Level ==
    /\ \E t \in LevelTexts :
          call' = [op |-> "Text2Level", text |-> t, ret |-> Text2Level(t)]
    /\ UNCHANGED <<def, defaultContext, LoggerConfig, ctx, held, origin,
                   nextId, lastSet, out, exited>>

CallConvLevel ==
    /\ \E l \in LogLevel :
          call' = [op |-> "convLevel", level |-> l, ret |-> convLevel(l)]
    /\ UNCHANGED <<def, defaultContext, LoggerConfig, ctx, held, origin,
                   nextId, lastSet, out, exited>>

NextLevel == CallText2Level \/ CallConvLevel

SpecLevel == Init /\ [][NextLevel]_vars

---------------------------------------------------------------------------
(* Construction, Check and the leveled writes on the held logger.          *)

CallNewLogger ==
    /\ ~exited
    /\ nextId < MaxLoggers
    /\ \E t \in LevelTexts, j \in BOOLEAN :
          LET r == NewLogger([Level |-> t, IsJson |-> j], nextId + 1) IN
          /\ held' = r.logger
          /\ origin' = [via |-> "NewLogger", text |-> t, json |-> j,
                        path |-> <<>>]
          /\ nextId' = IF r.err = NoErr THEN nextId + 1 ELSE nextId
          /\ call' = [op |-> "NewLogger", json |-> j, level |-> Text2Level(t),
                      ret |-> r.logger, err |-> r.err]
    /\ UNCHANGED <<def, defaultContext, LoggerConfig, ctx, lastSet, out, exited>>

CallNewZap ==
    /\ ~exited
    /\ nextId < MaxLoggers
    /\ \E l \in LevelInputs, j \in BOOLEAN :
          LET r == newZap(j, l, nextId + 1) IN
          /\ held' = r.logger
          /\ origin' = [via |-> "newZap", level |-> l, json |-> j,
                        path |-> <<>>]
          /\ nextId' = IF r.err = NoErr THEN nextId + 1 ELSE nextId
          /\ call' = [op |-> "newZap", json |-> j, level |-> l,
                      ret |-> r.logger, err |-> r.err]
    /\ UNCHANGED <<def, defaultContext, LoggerConfig, ctx, lastSet, out, exited>>

CallCheck ==
    /\ ~exited
    /\ held.kind = "zap"
    /\ \E m \in LevelInputs :
          call' = [op |-> "Check", level |-> m, ret |-> Check(held, m)]
    /\ UNCHANGED <<def, defaultContext, LoggerConfig, ctx, held, origin,
                   nextId, lastSet, out, exited>>

(* A leveled write of the sugared logger: the record is written when the   *)
(* core admits the level; a Fatal write then exits the process.            *)
Write(op, lvl) ==
    /\ LET wrote == CoreEnabled(held.log, lvl) IN
       /\ out' = IF wrote THEN Record(held.log, lvl) ELSE out
       /\ call' = [op |-> op, wrote |-> wrote]
    /\ exited' = (lvl = ZapFatalLevel)
    /\ UNCHANGED <<def, defaultContext, LoggerConfig, ctx, held, origin,
                   nextId, lastSet>>

Info ==
    /\ ~exited
    /\ held.kind = "zap"
    /\ Write("Info", ZapInfoLevel)

Warn ==
    /\ ~exited
    /\ held.kind = "zap"
    /\ Write("Warn", ZapWarnLevel)

Error ==
    /\ ~exited
    /\ held.kind = "zap"
    /\ Write("Error", ZapErrorLevel)

Debug ==
    /\ ~exited
    /\ held.kind = "zap"
    /\ Write("Debug", ZapDebugLevel)

Fatal ==
    /\ ~exited
    /\ held.kind = "zap"
    /\ Write("Fatal", ZapFatalLevel)

NextZap ==
    \/ CallNewLogger
    \/ CallNewZap
    \/ CallCheck
    \/ Info
    \/ Warn
    \/ Error
    \/ Debug
    \/ Fatal

SpecZap == Init /\ [][NextZap]_vars

---------------------------------------------------------------------------
(* The package variables and the context resolution chain.                 *)

Assign(g) ==
    /\ def' = g.def
    /\ defaultContext' = g.defaultContext
    /\ LoggerConfig' = g.LoggerConfig
    /\ nextId' = g.nextId

(* The loggers the application can pass: nil, a mock, or the logger the    *)
(* last call returned.                                                     *)
AppLoggers ==
    {Nil, MockLogger(1)}
        \cup (IF call.op \in {"GetDefaultLogger", "FromDefaultContext", "FromContext"}
              THEN {call.ret} ELSE {})

CallSetDefaultLogger ==
    /\ \E l \in AppLoggers :
          /\ Assign(SetDefaultLogger(Globals, l))
          /\ lastSet' = l
          /\ call' = NoCall
    /\ UNCHANGED <<ctx, held, origin, out, exited>>

DefaultContexts ==
    {NilCtx, Background, WithValue(Background, loggerKey, NonLogger)}
        \cup {ToContext(Background, l) : l \in AppLoggers \ {Nil}}

CallSetDefaultContext ==
    /\ \E c \in DefaultContexts :
          /\ Assign(SetDefaultContext(Globals, c))
          /\ call' = NoCall
    /\ UNCHANGED <<ctx, held, origin, lastSet, out, exited>>

(* The application assigns the exported LoggerConfig. *)
SetLoggerConfig ==
    /\ \E conf \in Configs : LoggerConfig' = conf
    /\ call' = NoCall
    /\ UNCHANGED <<def, defaultContext, ctx, held, origin, nextId, lastSet,
                   out, exited>>

SetAnyLoggerConfig ==
    /\ \E t \in ConfigTexts, j \in BOOLEAN :
          LoggerConfig' = [Level |-> t, IsJson |-> j]
    /\ call' = NoCall
    /\ UNCHANGED <<def, defaultContext, ctx, held, origin, nextId, lastSet,
                   out, exited>>

(* A call of the chain; pre is the package state it started from, call is   *)
(* the last call that returned (a call that returns nothing clears it).    *)
Resolve(op, c, r) ==
    /\ Assign(r.g)
    /\ call' = [op |-> op, ctx |-> c, pre |-> Globals,
                ret |-> r.ret, panicked |-> r.panicked, touched |-> r.touched]
    /\ UNCHANGED <<ctx, held, origin, lastSet, out, exited>>

CallGetDefaultLogger ==
    /\ GetDefaultLogger(Globals).g.nextId <= MaxLoggers
    /\ Resolve("GetDefaultLogger", NilCtx, GetDefaultLogger(Globals))

CallFromDefaultContext ==
    /\ FromDefaultContext(Globals).g.nextId <= MaxLoggers
    /\ Resolve("FromDefaultContext", NilCtx, FromDefaultContext(Globals))

CallFromContext ==
    /\ FromContext(ctx, Globals).g.nextId <= MaxLoggers
    /\ Resolve("FromContext", ctx, FromContext(ctx, Globals))

(* context.Background() *)
NewBackground ==
    /\ ctx' = Background
    /\ call' = NoCall
    /\ UNCHANGED <<def, defaultContext, LoggerConfig, held, origin, nextId,
                   lastSet, out, exited>>

CallToContext ==
    /\ Len(ctx.chain) < MaxCtxDepth
    /\ \E l \in AppLoggers :
          /\ ctx' = ToContext(ctx, l)
          /\ call' = NoCall
    /\ UNCHANGED <<def, defaultContext, LoggerConfig, held, origin, nextId,
                   lastSet, out, exited>>

(* context.WithValue by other code: a value that is no Logger under the   *)
(* logger key, or a value under another key.                               *)
CallWithValue ==
    /\ Len(ctx.chain) < MaxCtxDepth
    /\ \E k \in {loggerKey, otherKey} :
          /\ ctx' = WithValue(ctx, k, NonLogger)
          /\ call' = NoCall
    /\ UNCHANGED <<def, defaultContext, LoggerConfig, held, origin, nextId,
                   lastSet, out, exited>>

NextCtx ==
    \/ CallSetDefaultLogger
    \/ CallSetDefaultContext
    \/ SetLoggerConfig
    \/ CallGetDefaultLogger
    \/ CallFromDefaultContext
    \/ CallFromContext
    \/ NewBackground
    \/ CallToContext
    \/ CallWithValue

SpecCtx == Init /\ [][NextCtx]_vars

(* The default logger alone, under every configuration. *)
NextDefault ==
    \/ CallSetDefaultLogger
    \/ SetAnyLoggerConfig
    \/ CallGetDefaultLogger

SpecDefault == Init /\ [][NextDefault]_vars

---------------------------------------------------------------------------
(* Derived handles and the Trace emission.                                 *)

MaxDerive == 2

(* The context fields and the caller skip a SugaredLogger has accumulated; *)
(* a logger fresh from config.Build() has none.                            *)
FieldsOf(log) == IF "fields" \in DOMAIN log THEN log.fields ELSE <<>>

CallerSkipOf(log) == IF "callerSkip" \in DOMAIN log THEN log.callerSkip ELSE 0

LogSet(log, k, v) ==
    [x \in DOMAIN log \cup {k} |-> IF x = k THEN v ELSE log[x]]

(* l.log.With(key, value): a clone of the logger with one more field.      *)
LogWith(log, key) == LogSet(log, "fields", Append(FieldsOf(log), key))

(* l.log.WithOptions(zap.AddCallerSkip(count)) *)
LogAddCallerSkip(log, count) ==
    LogSet(log, "callerSkip", CallerSkipOf(log) + count)

(* The four derivations return the receiver as the call leaves it and the  *)
(* handle they allocate at address id.                                     *)
WithError(l, id) ==
    [ recv |-> l,
      ret  |-> [kind |-> "zap", id |-> id, log |-> LogWith(l.log, "error"),
                traceLevel |-> l.traceLevel] ]

WithField(l, key, id) ==
    [ recv |-> l,
      ret  |-> [kind |-> "zap", id |-> id, log |-> LogWith(l.log, key),
                traceLevel |-> l.traceLevel] ]

SkipCallers(l, count, id) ==
    [ recv |-> l,
      ret  |-> [kind |-> "zap", id |-> id,
                log |-> LogAddCallerSkip(l.log, count),
                traceLevel |-> l.traceLevel] ]

WithKeepsTrace(l, id) ==
    [ recv |-> l,
      ret  |-> [kind |-> "zap", id |-> id, log |-> LogWith(l.log, "args"),
                traceLevel |-> l.traceLevel] ]

(* With builds the struct with the log field only: traceLevel is the zero  *)
(* value of bool.                                                          *)
With(l, id) ==
    [ recv |-> l,
      ret  |-> [kind |-> "zap", id |-> id, log |-> LogWith(l.log, "args"),
                traceLevel |-> FALSE] ]

(* trace(l, msg): a fresh checked entry gets the logger's core added to it *)
(* with AddCore, which appends the core without asking core.Enabled, is    *)
(* given the level one below Debug, and is written.  The result is the     *)
(* record the core's encoder renders.                                      *)
trace(l) == Record(l.log, ZapDebugLevel - 1)

FieldKeys == {"user"}

SkipCounts == {1, 2}

Derive(op, r) ==
    /\ held' = r.ret
    /\ nextId' = nextId + 1
    /\ origin' = [origin EXCEPT !.path = Append(@, op)]
    /\ call' = [op |-> op, before |-> held, recv |-> r.recv, ret |-> r.ret]
    /\ UNCHANGED <<def, defaultContext, LoggerConfig, ctx, lastSet, out, exited>>

CallWithError ==
    /\ held.kind = "zap"
    /\ Len(origin.path) < MaxDerive
    /\ Derive("WithError", WithError(held, nextId + 1))

CallWithField ==
    /\ held.kind = "zap"
    /\ Len(origin.path) < MaxDerive
    /\ \E k \in FieldKeys :
          Derive("WithField", WithField(held, k, nextId + 1))

CallSkipCallers ==
    /\ held.kind = "zap"
    /\ Len(origin.path) < MaxDerive
    /\ \E n \in SkipCounts :
          Derive("SkipCallers", SkipCallers(held, n, nextId + 1))

CallWith ==
    /\ held.kind = "zap"
    /\ Len(origin.path) < MaxDerive
    /\ Derive("With", With(held, nextId + 1))

(* zapLogger.Print *)
CallPrint ==
    /\ held.kind = "zap"
    /\ out' = trace(held)
    /\ call' = [op |-> "Print", wrote |-> TRUE,
                checkDebug |-> Check(held, DebugLevel),
                checkTrace |-> Check(held, TraceLevel)]
    /\ UNCHANGED <<def, defaultContext, LoggerConfig, ctx, held, origin,
                   nextId, lastSet, exited>>

NextHandle ==
    \/ CallNewZap
    \/ CallCheck
    \/ CallWithError
    \/ CallWithField
    \/ CallSkipCallers
    \/ CallWith
    \/ CallPrint

SpecHandle == Init /\ [][NextHandle]_vars

---------------------------------------------------------------------------
(* The package variables under two goroutines: one inside GetDefaultLogger *)
(* or FromDefaultContext, statement by statement, the other calling the    *)
(* setters.  Nothing orders the accesses, so a second read of a variable   *)
(* yields either its current value or the value the goroutine already      *)
(* holds from its previous access.                                         *)

InFlight == call # NoCall /\ call.pc # "done"

Hits == IF call = NoCall THEN {} ELSE call.hits

StartCall(op, pc) ==
    /\ nextId < MaxLoggers
    /\ call' = [op |-> op, pc |-> pc, seen |-> Nil, seenCtx |-> NilCtx,
                inited |-> FALSE, readNil |-> FALSE, overlap |-> FALSE,
                ret |-> Nil, panicked |-> FALSE, hits |-> Hits]
    /\ UNCHANGED <<def, defaultContext, LoggerConfig, ctx, held, origin,
                   nextId, lastSet, out, exited>>

RaceGetDefaultLogger ==
    /\ ~InFlight
    /\ StartCall("GetDefaultLogger", "check")

RaceFromDefaultContext ==
    /\ ~InFlight
    /\ StartCall("FromDefaultContext", "nilcheck")

(* if def != nil *)
GdlCheck ==
    /\ InFlight
    /\ call.pc = "check"
    /\ call' = [call EXCEPT !.seen = def,
                            !.pc = IF def # Nil THEN "return" ELSE "build"]
    /\ UNCHANGED <<def, defaultContext, LoggerConfig, ctx, held, origin,
                   nextId, lastSet, out, exited>>

(* return def *)
GdlReturn ==
    /\ InFlight
    /\ call.pc = "return"
    /\ \E v \in {def, call.seen} :
          call' = [call EXCEPT !.ret = v, !.pc = "done",
                               !.hits = IF v = Nil THEN @ \cup {"nilLogger"}
                                        ELSE @]
    /\ UNCHANGED <<def, defaultContext, LoggerConfig, ctx, held, origin,
                   nextId, lastSet, out, exited>>

(* The construction branch: def was seen nil and is not read again. *)
GdlBuild ==
    /\ InFlight
    /\ call.pc = "build"
    /\ LET r == GetDefaultLogger(SetDefaultLogger(Globals, Nil)) IN
       /\ Assign(SetDefaultLogger(r.g, def))
       /\ call' = [call EXCEPT !.ret = r.ret, !.panicked = r.panicked,
                               !.pc = "done"]
    /\ UNCHANGED <<ctx, held, origin, lastSet, out, exited>>

(* if defaultContext == nil *)
FdcCheckNil ==
    /\ InFlight
    /\ call.pc = "nilcheck"
    /\ call' = [call EXCEPT !.seenCtx = defaultContext,
                            !.pc = IF defaultContext.isNil THEN "init"
                                   ELSE "read"]
    /\ UNCHANGED <<def, defaultContext, LoggerConfig, ctx, held, origin,
                   nextId, lastSet, out, exited>>

LazyInitSkipped(g) == g

(* defaultContext = context.Background() *)
LazyInit(g) == SetDefaultContext(g, Background)

FdcInitialize ==
    /\ InFlight
    /\ call.pc = "init"
    /\ Assign(LazyInit(Globals))
    /\ call' = [call EXCEPT !.seenCtx = LazyInit(Globals).defaultContext,
                            !.inited = TRUE, !.pc = "read"]
    /\ UNCHANGED <<ctx, held, origin, lastSet, out, exited>>

(* defaultContext.Value(loggerKey).(Logger): a method call on a nil        *)
(* interface panics.                                                       *)
FdcRead ==
    /\ InFlight
    /\ call.pc = "read"
    /\ \E c \in {defaultContext, call.seenCtx} :
          IF c.isNil
          THEN call' = [call EXCEPT !.readNil = TRUE, !.panicked = TRUE,
                                    !.pc = "done",
                                    !.hits = IF call.inited
                                             THEN @ \cup {"nilContext"}
                                             ELSE @]
          ELSE IF IsLogger(Value(c, loggerKey))
          THEN call' = [call EXCEPT !.ret = Value(c, loggerKey),
                                    !.pc = "done"]
          ELSE call' = [call EXCEPT !.pc = "check"]
    /\ UNCHANGED <<def, defaultContext, LoggerConfig, ctx, held, origin,
                   nextId, lastSet, out, exited>>

(* The setter goroutine; a setter that runs while a getter is in flight    *)
(* marks the getter's call as overlapped.                                  *)
Overlapped == IF InFlight THEN [call EXCEPT !.overlap = TRUE] ELSE call

RaceLoggers == {Nil, MockLogger(1)}

RaceContexts == {NilCtx, Background, ToContext(Background, MockLogger(2))}

RaceSetDefaultLogger ==
    /\ \E l \in RaceLoggers : Assign(SetDefaultLogger(Globals, l))
    /\ call' = Overlapped
    /\ UNCHANGED <<ctx, held, origin, lastSet, out, exited>>

RaceSetDefaultContext ==
    /\ \E c \in RaceContexts : Assign(SetDefaultContext(Globals, c))
    /\ call' = Overlapped
    /\ UNCHANGED <<ctx, held, origin, lastSet, out, exited>>

NextRace ==
    \/ RaceGetDefaultLogger
    \/ RaceFromDefaultContext
    \/ GdlCheck
    \/ GdlReturn
    \/ GdlBuild
    \/ FdcCheckNil
    \/ FdcInitialize
    \/ FdcRead
    \/ RaceSetDefaultLogger
    \/ RaceSetDefaultContext

SpecRace == Init /\ [][NextRace]_vars

---------------------------------------------------------------------------
(* Vocabulary of the properties.                                           *)

SameLetter(x, y) ==
    \/ x = y
    \/ \E k \in 1..Len(LowerLetters) : {x, y} = {LowerLetters[k], UpperLetters[k]}

(* a and b are the same text, compared case-insensitively *)
FoldEq(a, b) ==
    /\ Len(a) = Len(b)
    /\ \A i \in 1..Len(a) : SameLetter(a[i], b[i])

(* The level the documentation gives a level text. *)
DocumentedLevel(t) ==
    CASE FoldEq(t, TxtTRACE)   -> 6
      [] FoldEq(t, TxtDEBUG)   -> 5
      [] FoldEq(t, TxtINFO)    -> 4
      [] FoldEq(t, TxtWARNING) -> 3
      [] FoldEq(t, TxtERROR)   -> 2
      [] FoldEq(t, TxtFATAL)   -> 1
      [] FoldEq(t, TxtPANIC)   -> 0
      [] OTHER                 -> 4

(* The level texts a logger can be built from. *)
Buildable(t) ==
    \E n \in {TxtTRACE, TxtDEBUG, TxtINFO, TxtWARNING, TxtERROR, TxtFATAL,
              TxtUNKNOWN} : FoldEq(t, n)

(* C1: Text2Level maps TRACE, DEBUG, INFO, WARNING, ERROR, FATAL and PANIC, *)
(* compared case-insensitively, to their levels, and UNKNOWN and every     *)
(* other string (the empty string and "WARN" included) to InfoLevel.       *)
C1_Text2LevelTotal ==
    call.op = "Text2Level" => call.ret = DocumentedLevel(call.text)

(* C2: construction (NewLogger, newZap) fails with the invalid-level error *)
(* and returns no logger exactly when the level is PanicLevel or outside   *)
(* the seven levels; for Trace..Fatal, json or not, it returns a logger    *)
(* and no error.                                                           *)
C2_ConstructionFailsOnUnmappedLevel ==
    call.op \in {"NewLogger", "newZap"} =>
        IF call.level = 0 \/ call.level \notin 0..6
        THEN call.ret = Nil /\ call.err = "wrong logging level"
        ELSE call.ret.kind = "zap" /\ call.err = "nil"

C2_Witness ==
    /\ call.op = "newZap"
    /\ call.level = 100
    /\ call.json
    /\ call.ret = Nil
    /\ call.err = "wrong logging level"

(* C3: convLevel over 0..255 returns nil exactly for PanicLevel and for    *)
(* the values outside the seven levels, Info, Warn, Error and Fatal for    *)
(* their levels and the backend Debug level for both Trace and Debug.      *)
C3_ConvLevelTotal ==
    call.op = "convLevel" =>
        CASE call.level \in {5, 6} -> call.ret = [isNil |-> FALSE, v |-> -1]
          [] call.level = 4        -> call.ret = [isNil |-> FALSE, v |-> 0]
          [] call.level = 3        -> call.ret = [isNil |-> FALSE, v |-> 1]
          [] call.level = 2        -> call.ret = [isNil |-> FALSE, v |-> 2]
          [] call.level = 1        -> call.ret = [isNil |-> FALSE, v |-> 5]
          [] OTHER                 -> call.ret.isNil

C3_Witness ==
    /\ call.op = "convLevel"
    /\ call.level = 0
    /\ call.ret.isNil

(* C4: FromContext(ToContext(ctx, l)) returns l for every context ctx and  *)
(* non-nil logger l, whatever def and defaultContext are, and touches      *)
(* neither.                                                                *)
C4_RoundTrip ==
    call.op = "FromContext" =>
        LET n == Len(call.ctx.chain)
            parent == [call.ctx EXCEPT !.chain = SubSeq(@, 1, n - 1)]
            l == IF n > 0 THEN call.ctx.chain[n].val ELSE Nil
        IN  (IsLogger(l) /\ call.ctx = ToContext(parent, l)) =>
                /\ call.ret = l
                /\ ~call.panicked
                /\ call.touched = {}
                /\ def = call.pre.def
                /\ defaultContext = call.pre.defaultContext

C4_Witness ==
    /\ call.op = "FromContext"
    /\ Len(call.ctx.chain) = 2
    /\ call.ctx.chain[1].key = loggerKey
    /\ call.ctx.chain[2].key = loggerKey
    /\ IsLogger(call.ctx.chain[1].val)
    /\ IsLogger(call.ctx.chain[2].val)
    /\ call.ctx.chain[1].val # call.ctx.chain[2].val
    /\ call.ret = call.ctx.chain[2].val
    /\ def \notin {Nil, call.ret}
    /\ IsLogger(Value(defaultContext, loggerKey))
    /\ Value(defaultContext, loggerKey) # call.ret

(* What the chain behind the explicit context yields from the package     *)
(* state pre: the default context's logger, else the default logger, else  *)
(* a logger newly built from the configuration.                            *)
ChainResult(pre, builds) ==
    LET d == Value(pre.defaultContext, loggerKey) IN
    IF ~pre.defaultContext.isNil /\ IsLogger(d)
    THEN ~call.panicked /\ call.ret = d
    ELSE IF pre.def # Nil
    THEN ~call.panicked /\ call.ret = pre.def
    ELSE IF builds
    THEN /\ ~call.panicked
         /\ call.ret.kind = "zap"
         /\ call.ret.id > pre.nextId
    ELSE call.panicked

(* C5: for a context carrying no value under the logger key, FromContext   *)
(* returns the default context's logger if it carries one, otherwise the   *)
(* default logger, and in every state of def, defaultContext and           *)
(* LoggerConfig it returns a non-nil handle and does not panic.            *)
C5_FallbackNeverFails ==
    (call.op = "FromContext" /\ Value(call.ctx, loggerKey) = Nil) =>
        /\ ChainResult(call.pre, TRUE)
        /\ IsLogger(call.ret)

(* C5, amended: the same chain, and a non-nil handle without a panic,      *)
(* except that with no default logger set, no logger in the default        *)
(* context and a LoggerConfig.Level that is neither empty nor one of       *)
(* TRACE, DEBUG, INFO, WARNING, ERROR, FATAL, UNKNOWN (case-insensitive)   *)
(* the call panics with the invalid-level error.                           *)
C5_FallbackChain ==
    (call.op = "FromContext" /\ Value(call.ctx, loggerKey) = Nil) =>
        /\ ChainResult(call.pre,
               call.pre.LoggerConfig.Level = <<>>
                   \/ Buildable(call.pre.LoggerConfig.Level))
        /\ ~call.panicked => IsLogger(call.ret)

C5_Witness ==
    /\ call.op = "FromContext"
    /\ Len(call.ctx.chain) > 0
    /\ Value(call.ctx, loggerKey) = Nil
    /\ call.pre.def = Nil
    /\ ~IsLogger(Value(call.pre.defaultContext, loggerKey))
    /\ call.pre.LoggerConfig.Level = TxtPANIC
    /\ call.panicked

BuiltFromConfig ==
    /\ ~call.panicked
    /\ call.ret.kind = "zap"
    /\ call.ret.id > call.pre.nextId
    /\ (call.ret.log.Encoding = "json") = LoggerConfig.IsJson
    /\ call.ret.traceLevel = FoldEq(LoggerConfig.Level, TxtTRACE)
    /\ def = Nil

(* C7: GetDefaultLogger returns the value last passed to SetDefaultLogger  *)
(* when it is non-nil; when the default is unset or cleared it sets an     *)
(* empty LoggerConfig.Level to DEBUG, builds and returns a new non-nil     *)
(* logger from LoggerConfig on every call and leaves the default unset.    *)
C7_DefaultOrFresh ==
    call.op = "GetDefaultLogger" =>
        IF lastSet # Nil
        THEN call.ret = lastSet /\ ~call.panicked /\ Globals = call.pre
        ELSE /\ call.pre.LoggerConfig.Level = <<>> => LoggerConfig.Level = TxtDEBUG
             /\ BuiltFromConfig

(* C7, amended: as C7, except that with the default unset and a            *)
(* LoggerConfig.Level that is neither empty nor one of TRACE, DEBUG, INFO, *)
(* WARNING, ERROR, FATAL, UNKNOWN (case-insensitive) the call panics,      *)
(* returns nothing and leaves the default unset.                           *)
C7_DefaultOrFreshOrPanic ==
    call.op = "GetDefaultLogger" =>
        IF lastSet # Nil
        THEN call.ret = lastSet /\ ~call.panicked /\ Globals = call.pre
        ELSE /\ call.pre.LoggerConfig.Level = <<>> => LoggerConfig.Level = TxtDEBUG
             /\ IF Buildable(LoggerConfig.Level)
                THEN BuiltFromConfig
                ELSE call.panicked /\ def = Nil /\ Globals = call.pre

C7_Witness ==
    /\ call.op = "GetDefaultLogger"
    /\ lastSet = Nil
    /\ call.pre.LoggerConfig.Level = <<>>
    /\ call.pre.nextId = 1
    /\ call.ret.kind = "zap"
    /\ call.ret.id = 2
    /\ def = Nil

(* The level the held logger was constructed at. *)
ConstructedLevel ==
    IF origin.via = "NewLogger" THEN DocumentedLevel(origin.text) ELSE origin.level

ConstructedWithTrace ==
    IF origin.via = "NewLogger" THEN FoldEq(origin.text, TxtTRACE) ELSE origin.level = 6

(* C8: Check(TraceLevel) is true if and only if the logger was constructed *)
(* with level TRACE; a logger constructed with DEBUG answers false         *)
(* although its backend threshold is the same Debug level.                 *)
C8_CheckTraceIsTheFlag ==
    (call.op = "Check" /\ call.level = 6) =>
        /\ call.ret = ConstructedWithTrace
        /\ ConstructedLevel \in {5, 6} => held.log.Level = -1

C8_Witness ==
    /\ call.op = "Check"
    /\ call.level = 6
    /\ origin.via = "NewLogger"
    /\ origin.text = TxtDEBUG
    /\ held.log.Level = -1
    /\ call.ret = FALSE

(* C9: for a logger constructed at level L and a level M other than Trace, *)
(* Check(M) is false when M is PanicLevel or out of range, and otherwise   *)
(* true exactly when M is at least as severe as the threshold of L (Debug  *)
(* for Trace).                                                             *)
C9_CheckFollowsThreshold ==
    (call.op = "Check" /\ call.level # 6) =>
        LET threshold == IF ConstructedLevel = 6 THEN 5 ELSE ConstructedLevel IN
        call.ret = (call.level \in 1..5 /\ call.level <= threshold)

C9_Witness ==
    /\ call.op = "Check"
    /\ origin.via = "NewLogger"
    /\ origin.text = TxtWARNING
    /\ origin.json
    /\ call.level = 4
    /\ call.ret = FALSE

(* C10: a logger built with json = true renders the severity of every      *)
(* record as the lowercase level name, at every level it can be built at;  *)
(* colorized level text appears only in console mode.                      *)
C10_JsonSeverityLowercase ==
    out # NoRecord =>
        /\ out.encoding = "json" =>
              /\ out.severity.color = "none"
              /\ out.severity.text \in {"debug", "info", "warn", "error", "fatal"}
              /\ out.severity.text = LevelString(out.level)
        /\ out.severity.color # "none" => out.encoding = "console"

(* The derivation operations. *)
DeriveOps == {"WithError", "WithField", "SkipCallers", "With"}

(* No With call lies on the derivation path of the held handle. *)
NoWithOnPath == \A i \in DOMAIN origin.path : origin.path[i] # "With"

(* C11: Print on a logger constructed at Info, Warn, Error or Fatal writes *)
(* no record, in line with Check(DebugLevel) and Check(TraceLevel) both    *)
(* being false on that handle.                                             *)
C11_PrintGatedByThreshold ==
    (call.op = "Print" /\ ConstructedLevel \in {1, 2, 3, 4}) =>
        /\ ~call.checkDebug
        /\ ~call.checkTrace
        /\ ~call.wrote

(* C12: WithField, WithError, SkipCallers and With each return a new       *)
(* handle and leave the receiver's trace flag as it was; the first three   *)
(* copy the flag into the new handle and With returns a handle whose flag  *)
(* is false; so Check(TraceLevel) on a handle is true exactly when its     *)
(* root was constructed with TRACE and no With lies on its derivation      *)
(* path.                                                                   *)
C12_DerivedTraceFlag ==
    /\ call.op \in DeriveOps =>
          /\ call.ret.id # call.before.id
          /\ call.recv.traceLevel = call.before.traceLevel
          /\ call.ret.traceLevel =
                IF call.op = "With" THEN FALSE ELSE call.before.traceLevel
    /\ held.kind = "zap" =>
          held.traceLevel = (ConstructedWithTrace /\ NoWithOnPath)
    /\ (call.op = "Check" /\ call.level = 6) =>
          call.ret = (ConstructedWithTrace /\ NoWithOnPath)

C12_Witness ==
    /\ call.op = "Check"
    /\ call.level = 6
    /\ call.ret = FALSE
    /\ ConstructedWithTrace
    /\ origin.path = <<"With", "WithField">>

(* A getter call went wrong: FromDefaultContext read a nil default         *)
(* context, or a call returned nil after GetDefaultLogger's check had seen *)
(* a non-nil default logger.                                               *)
ReadNilContext == call # NoCall /\ call.readNil

ReturnedNilAfterNonNil ==
    /\ call # NoCall
    /\ call.pc = "done"
    /\ call.seen # Nil
    /\ ~call.panicked
    /\ call.ret = Nil

(* C13: FromDefaultContext reads a nil default context, or GetDefaultLogger*)
(* returns nil after its check saw a non-nil default logger, only when a   *)
(* setter ran while that getter call was in flight; with such an overlap   *)
(* both outcomes are reachable, the nil context even after the call's own  *)
(* lazy initialization.                                                    *)
C13_NilOnlyUnderRace ==
    (ReadNilContext \/ ReturnedNilAfterNonNil) => call.overlap

C13_Witness ==
    /\ call # NoCall
    /\ call.hits = {"nilContext", "nilLogger"}
    /\ call.op = "FromDefaultContext"
    /\ call.inited
    /\ call.readNil
    /\ call.overlap

====
